---- MODULE Spec2Model ----
(***************************************************************************)
(* GeoOptima: the dark-store facility-location engine                      *)
(* (backend/app/optimizer_darkstores.py) and the request handlers that     *)
(* call it (backend/app/main.py).                                          *)
(*                                                                         *)
(* Fixed-point conventions.  Coordinates are integers in hundredths of a   *)
(* degree, distances are in hundredths of a kilometre and travel times in  *)
(* hundredths of a minute, so that the code's float arithmetic             *)
(* (x * 111, hypot, / speed * 60) is computed on integers.  Python rows    *)
(* are numbered from 0, the sequences here from 1.                         *)
(***************************************************************************)
EXTENDS Integers, Sequences, FiniteSets, TLC

\* ------------------------------------------------------------------------
\* Bounds of the model
\* ------------------------------------------------------------------------
MaxSites == 2
MaxCust == 2
MaxDemand == 2
MaxCap == 2
MaxTime == 3
MaxReq == 2

\* ------------------------------------------------------------------------
\* Program constants
\* ------------------------------------------------------------------------
\* kilometres per degree used by _haversine_minutes
DegKm == 111
\* default of travel_speed_kmph
travel_speed_kmph == 30

\* ------------------------------------------------------------------------
\* Python values that reach solve_darkstores as max_time_min: an int, or the
\* str the handlers of main.py pass in that position (req.city)
\* ------------------------------------------------------------------------
PyInt(n) == [ty |-> "int", v |-> n]
PyStr == [ty |-> "str", v |-> 0]

\* Results PostGIS can give for one pair, in hundredths of a kilometre; -1 is
\* SQL NULL, which "float(res or 0.0)" turns into 0
DbResults == {-1, 100}

SiteId(i) == 100 + i
CustId(j) == 200 + j

\* Coordinates of the inputs, in hundredths of a degree
Coords == 0..1

\* Row counts of the data main.py handles: what the code looks at is whether a
\* frame is empty (0) or not (1)
Rows == {0, 1}

\* Inputs: sites lie on the line lat = 0 and customers on the line lon = 0, so
\* that a pair is at distance 0, along one axis, or on a diagonal
CandidateSets ==
  UNION { { [i \in 1..n |-> [id |-> SiteId(i), lon |-> p[i], lat |-> 0,
                              fixed_cost |-> 1]] : p \in [1..n -> Coords] }
          : n \in 0..MaxSites }

CustomerSets ==
  UNION { { [j \in 1..n |-> [id |-> CustId(j), lon |-> 0, lat |-> p[j],
                              demand |-> d[j]]] :
              p \in [1..n -> Coords], d \in [1..n -> 1..MaxDemand] }
          : n \in 0..MaxCust }

VARIABLES
  c,               \* candidates_df after normalisation: sequence of site rows
  u,               \* customers_df after normalisation: sequence of customer rows
  max_time_min,    \* argument max_time_min (a Python value)
  store_capacity,  \* argument store_capacity
  use_postgis,     \* argument use_postgis
  pc,              \* position of the call inside solve_darkstores
  travel,          \* travel matrix built so far: pair -> hundredths of a minute
  built,           \* number of pairs the PostGIS loop has computed
  strategy,        \* which strategy produced the returned matrix
  status,          \* how the external solver ended
  yval,            \* solver values of y_i
  xval,            \* solver values of x_i_j
  result,          \* what solve_darkstores gave its caller
  state,           \* optimizer_darkstores.STATE, the process-wide dict
  req,             \* the requests main.py is serving: parameters and locals
  fut              \* the futures of executor.submit, one per request

solveVars == <<c, u, max_time_min, store_capacity, use_postgis, pc, travel, built,
               strategy, status, yval, xval, result>>
apiVars == <<state, req, fut>>
vars == <<solveVars, apiVars>>

\* ------------------------------------------------------------------------
\* Helpers
\* ------------------------------------------------------------------------
Abs(x) == IF x < 0 THEN -x ELSE x

\* math.hypot on the fixed-point grid: floor of the Euclidean norm
Hypot(dx, dy) ==
  LET n == dx * dx + dy * dy
      lo == IF Abs(dx) >= Abs(dy) THEN Abs(dx) ELSE Abs(dy)
  IN CHOOSE r \in lo..(Abs(dx) + Abs(dy)) : r * r <= n /\ (r + 1) * (r + 1) > n

haversine_minutes(lon1, lat1, lon2, lat2, speed_kmph) ==
  LET dx == (lon1 - lon2) * DegKm
      dy == (lat1 - lat2) * DegKm
  IN (Hypot(dx, dy) * 60) \div speed_kmph

Sites(cs) == 1..Len(cs)
Custs(us) == 1..Len(us)
Pairs(cs, us) == Sites(cs) \X Custs(us)

\* The dict comprehension of the geodesic strategy, over all pairs
HaversineMatrix(cs, us, speed_kmph) ==
  [p \in Pairs(cs, us) |->
     haversine_minutes(cs[p[1]].lon, cs[p[1]].lat, us[p[2]].lon, us[p[2]].lat,
                       speed_kmph)]

\* The same branch, had it kept the entries the try block already computed
except_rebuild_mixed(partial, cs, us, speed_kmph) ==
  [p \in Pairs(cs, us) |->
     IF p \in DOMAIN partial THEN partial[p]
     ELSE HaversineMatrix(cs, us, speed_kmph)[p]]

\* The "except Exception" branch of _build_travel_matrix: the partial dict of
\* the try block is dropped and every entry is computed again
except_rebuild(partial, cs, us, speed_kmph) == HaversineMatrix(cs, us, speed_kmph)

\* Position of pair (i, j) in the order of the nested loops (i outer, j inner)
PairIndex(cs, us, p) == (p[1] - 1) * Len(us) + p[2]

\* "dist_km = float(res or 0.0); travel = dist_km / speed * 60"
PostgisMinutes(res, speed_kmph) ==
  LET dist_km == IF res = -1 THEN 0 ELSE res
  IN (dist_km * 60) \div speed_kmph

NoMatrix == << >>
NoVals == << >>
NoResult == [kind |-> "none", exc |-> "", stores |-> << >>, assignments |-> << >>,
             stats |-> << >>]
Raise(e) == [kind |-> "raise", exc |-> e, stores |-> << >>, assignments |-> << >>,
             stats |-> << >>]

\* ------------------------------------------------------------------------
\* The data main.py moves around, by origin and number of rows
\* ------------------------------------------------------------------------
Absent == [src |-> "absent", n |-> 0]
Synthetic(n) == [src |-> "synthetic", n |-> n]
Osm(n) == [src |-> "osm", n |-> n]

\* a plan, or the exception, the call of solve_darkstores that request r made
\* ends with in main.py
NoPlan == [kind |-> "none", exc |-> "", solve |-> 0, cands |-> Absent, custs |-> Absent]
ApiRaise(r, e) == [kind |-> "raise", exc |-> e, solve |-> r, cands |-> Absent,
                   custs |-> Absent]
ApiPlan(r, cs, us) == [kind |-> "plan", exc |-> "", solve |-> r, cands |-> cs,
                       custs |-> us]

\* no key yet in the cache slots of STATE
NoCache == [solve |-> 0, of |-> Absent]

NoRequest == [kind |-> "none", pc |-> "none", use_postgis |-> FALSE,
              n_candidates |-> 0, n_customers |-> 0, source |-> "",
              cands |-> Absent, custs |-> Absent, plan |-> NoPlan, resp |-> ""]

\* "STATE: Dict[str, Any] = {}" (STATE is a reserved word here) and no request yet
ApiStart ==
  /\ state = [candidates |-> Absent, customers |-> Absent, plan_df |-> NoCache,
              assignments |-> NoCache]
  /\ req = [r \in 1..MaxReq |-> NoRequest]
  /\ fut = [r \in 1..MaxReq |-> [st |-> "none", outcome |-> NoPlan]]

Init ==
  /\ ApiStart
  /\ c \in CandidateSets
  /\ u \in CustomerSets
  /\ max_time_min \in {PyInt(n) : n \in 0..MaxTime} \cup {PyStr}
  /\ store_capacity \in 0..MaxCap
  /\ use_postgis \in BOOLEAN
  /\ pc = "start"
  /\ travel = NoMatrix
  /\ built = 0
  /\ strategy = "none"
  /\ status = "none"
  /\ yval = NoVals
  /\ xval = NoVals
  /\ result = NoResult

\* ------------------------------------------------------------------------
\* The mixed-integer program of solve_darkstores
\* ------------------------------------------------------------------------
IsInt(pv) == pv.ty = "int"

\* coverable[(i, j)] = int(travel[(i, j)] <= max_time_min), inclusive
Coverable(t, mt) == [p \in DOMAIN t |-> t[p] <= mt * 100]

YVals(cs) == [Sites(cs) -> {0, 1}]
XVals(cs, us) == [Pairs(cs, us) -> {0, 1}]

RECURSIVE SumOver(_, _)
SumOver(f, S) ==
  IF S = {} THEN 0
  ELSE LET e == CHOOSE e \in S : TRUE IN f[e] + SumOver(f, S \ {e})

\* "lpSum(x[(i, j)] for i in range(len(c))) == 1" for every customer j
ExactlyOne(cs, us, x) ==
  \A j \in Custs(us) : SumOver([i \in Sites(cs) |-> x[<<i, j>>]], Sites(cs)) = 1

\* "if not coverable[(i, j)]: x[(i, j)] == 0" and "x[(i, j)] <= y[i]"
Gating(cov, y, x) ==
  \A p \in DOMAIN x : (~cov[p] => x[p] = 0) /\ x[p] <= y[p[1]]

\* "lpSum(u.demand[j] * x[(i, j)] for j) <= store_capacity * y[i]"
Capacity(cs, us, cap, y, x) ==
  \A i \in Sites(cs) :
     SumOver([j \in Custs(us) |-> us[j].demand * x[<<i, j>>]], Custs(us))
       <= cap * y[i]

Feasible(cs, us, cov, cap, y, x) ==
  /\ ExactlyOne(cs, us, x)
  /\ Gating(cov, y, x)
  /\ Capacity(cs, us, cap, y, x)

\* The objective, times 10000: fixed costs plus 0.01 per travel minute
Objective(cs, us, t, y, x) ==
  SumOver([i \in Sites(cs) |-> 10000 * cs[i].fixed_cost * y[i]], Sites(cs))
    + SumOver([p \in Pairs(cs, us) |-> t[p] * x[p]], Pairs(cs, us))

FeasibleSet(cs, us, cov, cap) ==
  { s \in YVals(cs) \X XVals(cs, us) : Feasible(cs, us, cov, cap, s[1], s[2]) }

OptimalSet(cs, us, t, cov, cap) ==
  LET F == FeasibleSet(cs, us, cov, cap)
  IN { s \in F : \A o \in F :
         Objective(cs, us, t, s[1], s[2]) <= Objective(cs, us, t, o[1], o[2]) }

\* What prob.solve(PULP_CBC_CMD(timeLimit=...)) can leave in the variables.
\* The code reads the values whatever the status is:
\*   Optimal     an optimal solution;
\*   TimeLimit   the time limit ended the search with an incumbent, which is
\*               feasible but need not be optimal;
\*   Infeasible  the program has no solution: the values are whatever the
\*               solver wrote, bound by no constraint;
\*   NotSolved   the time limit ended the search before any incumbent: as
\*               for Infeasible.
SolverOutcomes(cs, us, t, cov, cap) ==
  LET F == FeasibleSet(cs, us, cov, cap)
      All == YVals(cs) \X XVals(cs, us)
  IN   { <<"Optimal", s>> : s \in OptimalSet(cs, us, t, cov, cap) }
  \cup { <<"TimeLimit", s>> : s \in F }
  \cup (IF F = {} THEN { <<"Infeasible", s>> : s \in All } ELSE {})
  \cup { <<"NotSolved", s>> : s \in All }

\* ------------------------------------------------------------------------
\* Solution extraction
\* ------------------------------------------------------------------------
\* "value(v) > 0.5"
Realized(v) == 2 * v > 1

Opened(cs, y) == { i \in Sites(cs) : Realized(y[i]) }

\* the inner loop over i with its break: the first realized site of j, or 0
FirstRealized(cs, x, j) ==
  IF \E i \in Sites(cs) : Realized(x[<<i, j>>])
  THEN CHOOSE i \in Sites(cs) :
         Realized(x[<<i, j>>]) /\ \A k \in 1..(i - 1) : ~Realized(x[<<k, j>>])
  ELSE 0

Assignments(cs, us, t, x) ==
  LET F[j \in 0..Len(us)] ==
        IF j = 0 THEN << >>
        ELSE LET i == FirstRealized(cs, x, j)
             IN IF i = 0 THEN F[j - 1]
                ELSE Append(F[j - 1],
                            [customer_id |-> us[j].id, store_id |-> cs[i].id,
                             travel_min |-> t[<<i, j>>],
                             lon |-> us[j].lon, lat |-> us[j].lat])
  IN F[Len(us)]

Max(a, b) == IF a >= b THEN a ELSE b

Plan(cs, us, t, y, x) ==
  LET a == Assignments(cs, us, t, x)
      opened == Opened(cs, y)
  IN [kind |-> "plan", exc |-> "",
      stores |-> [i \in Sites(cs) |->
                    [id |-> cs[i].id, lon |-> cs[i].lon, lat |-> cs[i].lat,
                     open |-> i \in opened, fixed_cost |-> cs[i].fixed_cost]],
      assignments |-> a,
      stats |-> [stores_open |-> Cardinality(opened),
                 avg_travel_min |->
                   SumOver([k \in 1..Len(a) |-> a[k].travel_min], 1..Len(a))
                     \div Max(1, Len(a)),
                 total_customers |-> Len(us)]]

\* ------------------------------------------------------------------------
\* solve_darkstores, step by step
\* ------------------------------------------------------------------------
\* lines 103-134: the empty check is the only validation; then normalisation
Validate ==
  /\ pc = "start"
  /\ IF Len(c) = 0 \/ Len(u) = 0
     THEN /\ pc' = "raised"
          /\ result' = Raise("ValueError")
     ELSE /\ pc' = IF use_postgis THEN "postgis" ELSE "haversine"
          /\ result' = result
  /\ UNCHANGED apiVars
  /\ UNCHANGED <<c, u, max_time_min, store_capacity, use_postgis, travel, built,
                 strategy, status, yval, xval>>

\* _build_travel_matrix with use_postgis = False
BuildHaversine ==
  /\ pc = "haversine"
  /\ travel' = HaversineMatrix(c, u, travel_speed_kmph)
  /\ strategy' = "haversine"
  /\ pc' = "matrix"
  /\ UNCHANGED apiVars
  /\ UNCHANGED <<c, u, max_time_min, store_capacity, use_postgis, built, status,
                 yval, xval, result>>

\* one round trip of the PostGIS loop: the next pair in loop order
PostgisPair ==
  /\ pc = "postgis"
  /\ built < Len(c) * Len(u)
  /\ \E res \in DbResults :
       LET p == CHOOSE q \in Pairs(c, u) : PairIndex(c, u, q) = built + 1
       IN travel' = [q \in DOMAIN travel \cup {p} |->
                       IF q = p THEN PostgisMinutes(res, travel_speed_kmph)
                       ELSE travel[q]]
  /\ built' = built + 1
  /\ UNCHANGED apiVars
  /\ UNCHANGED <<c, u, max_time_min, store_capacity, use_postgis, pc, strategy,
                 status, yval, xval, result>>

\* the loop is over: "return travel"
PostgisReturn ==
  /\ pc = "postgis"
  /\ built = Len(c) * Len(u)
  /\ strategy' = "postgis"
  /\ pc' = "matrix"
  /\ UNCHANGED apiVars
  /\ UNCHANGED <<c, u, max_time_min, store_capacity, use_postgis, travel, built,
                 status, yval, xval, result>>

\* engine.begin() or a query raises: "except Exception" rebuilds every entry
PostgisFail ==
  /\ pc = "postgis"
  /\ travel' = except_rebuild(travel, c, u, travel_speed_kmph)
  /\ strategy' = "fallback"
  /\ pc' = "matrix"
  /\ UNCHANGED apiVars
  /\ UNCHANGED <<c, u, max_time_min, store_capacity, use_postgis, built, status,
                 yval, xval, result>>

\* lines 142-222: coverage mask, model, solver, extraction, return
SolveAndExtract ==
  /\ pc = "matrix"
  /\ IF ~IsInt(max_time_min)
     THEN \* float <= str in the coverage mask
          /\ pc' = "raised"
          /\ result' = Raise("TypeError")
          /\ UNCHANGED <<status, yval, xval>>
     ELSE \E o \in SolverOutcomes(c, u, travel, Coverable(travel, max_time_min.v),
                                  store_capacity) :
          /\ status' = o[1]
          /\ yval' = o[2][1]
          /\ xval' = o[2][2]
          /\ result' = Plan(c, u, travel, o[2][1], o[2][2])
          /\ pc' = "returned"
  /\ UNCHANGED apiVars
  /\ UNCHANGED <<c, u, max_time_min, store_capacity, use_postgis, travel, built,
                 strategy>>

Next ==
  \/ Validate
  \/ BuildHaversine
  \/ PostgisPair
  \/ PostgisReturn
  \/ PostgisFail
  \/ SolveAndExtract

Spec == Init /\ [][Next]_vars

\* ------------------------------------------------------------------------
\* _build_travel_matrix alone: the solve stops when the matrix is returned
\* ------------------------------------------------------------------------
MatrixInit ==
  /\ Init
  /\ max_time_min = PyInt(MaxTime)
  /\ store_capacity = MaxCap
  /\ \A j \in Custs(u) : u[j].demand = 1

MatrixNext ==
  \/ Validate
  \/ BuildHaversine
  \/ PostgisPair
  \/ PostgisReturn
  \/ PostgisFail

MatrixSpec == MatrixInit /\ [][MatrixNext]_vars

\* ------------------------------------------------------------------------
\* main.py: the handlers, each run by its own thread of the server
\* ------------------------------------------------------------------------
\* "executor = ThreadPoolExecutor(max_workers=2)"
max_workers == 2

\* The handlers call solve_darkstores(stores, customers, city, max_time_min,
\* capacity, fixed_cost, flag) by position: the third parameter of
\* solve_darkstores is max_time_min, which thus receives the city, a str.
CityAsMaxTime == PyStr

\* solve_darkstores once it has its two frames: the empty check of lines
\* 111-112, the coverage mask of line 143 ("travel <= max_time_min"), and
\* otherwise a plan computed on these frames
solve_outcome(r, cs, us, mt) ==
  IF cs.n = 0 \/ us.n = 0 THEN ApiRaise(r, "ValueError")
  ELSE IF ~IsInt(mt) THEN ApiRaise(r, "TypeError")
  ELSE ApiPlan(r, cs, us)

\* "data_osm.extract_osm_points(city=req.city)": extract_osm_points has the
\* parameters limit_customers and limit_stores only, so the call raises
extract_osm_points_kw == "TypeError"

\* "data_osm.extract_osm_points(city)": the database answers with non-empty
\* frames, or the call raises (no connection, a bad LIMIT, no rows)
ExtractOutcomes == {"raise", "ok"}

\* a handler that went on to the cache whatever the call ended with
after_solve_unchecked(outcome) == "cache"

\* where a handler goes when a call of solve_darkstores has ended: an
\* exception leaves the handler, a plan goes on to the cache
after_solve(outcome) == IF outcome.kind = "plan" THEN "cache" ELSE "done"

\* the response of a handler that an exception left
Failed(e) == "500:" \o e

\* "STATE.update({"plan_df": ..., "assignments": ...})"
cache_plan(st, plan) ==
  [st EXCEPT !.plan_df = [solve |-> plan.solve, of |-> plan.cands],
             !.assignments = [solve |-> plan.solve, of |-> plan.custs]]

\* a request comes in
Arrive(r) ==
  /\ req[r].kind = "none"
  /\ \/ \E k \in {"generate", "network"}, pg \in BOOLEAN,
           n \in Rows, m \in Rows :
          /\ k = "generate" => ~pg
          /\ req' = [req EXCEPT ![r] =
                       [NoRequest EXCEPT !.kind = k, !.pc = "start",
                                         !.use_postgis = pg, !.n_candidates = n,
                                         !.n_customers = m]]
     \/ \E k \in {"darkstores", "insights", "state"} :
          req' = [req EXCEPT ![r] =
                    [NoRequest EXCEPT !.kind = k, !.pc = "start"]]
  /\ UNCHANGED <<state, fut>>
  /\ UNCHANGED solveVars

\* POST /generate
generate(r) ==
  /\ req[r].kind = "generate"
  /\ req[r].pc = "start"
  /\ state' = [state EXCEPT !.candidates = Synthetic(req[r].n_candidates),
                            !.customers = Synthetic(req[r].n_customers)]
  /\ req' = [req EXCEPT ![r].pc = "done", ![r].resp = "200:synthetic"]
  /\ UNCHANGED fut
  /\ UNCHANGED solveVars

\* POST /plan/network, one step between two accesses of STATE at a time
plan_network(r) ==
  /\ req[r].kind = "network"
  /\ req[r].pc # "done"
  /\ LET q == req[r] IN
     CASE q.pc = "start" ->
            \* lines 167-173 and 184-185
            /\ req' = [req EXCEPT ![r] =
                 IF q.use_postgis /\ extract_osm_points_kw = "ok"
                 THEN [q EXCEPT !.pc = "p_update", !.source = "synthetic",
                                !.cands = Osm(1), !.custs = Osm(1)]
                 ELSE [q EXCEPT !.pc = "fallback", !.source = "synthetic"]]
            /\ UNCHANGED <<state, fut>>
       [] q.pc = "p_update" ->
            \* lines 174-177
            /\ state' = [state EXCEPT !.candidates = q.cands, !.customers = q.custs]
            /\ req' = [req EXCEPT ![r].pc = "p_solve"]
            /\ UNCHANGED fut
       [] q.pc = "p_solve" ->
            \* lines 178-185: any exception is caught and the plan stays None
            /\ LET o == solve_outcome(r, q.cands, q.custs, CityAsMaxTime)
               IN req' = [req EXCEPT ![r] =
                    IF o.kind = "plan"
                    THEN [q EXCEPT !.plan = o, !.source = "osm", !.pc = "cache"]
                    ELSE [q EXCEPT !.pc = "fallback"]]
            /\ UNCHANGED <<state, fut>>
       [] q.pc = "fallback" ->
            \* lines 187-196
            /\ state' = [state EXCEPT !.candidates = Synthetic(q.n_candidates),
                                      !.customers = Synthetic(q.n_customers)]
            /\ req' = [req EXCEPT ![r].pc = "f_enter"]
            /\ UNCHANGED fut
       [] q.pc = "f_enter" ->
            \* solve_darkstores(None, None, ...), lines 103-106: the keys are
            \* looked up and STATE["candidates"] is read
            /\ req' = [req EXCEPT ![r] =
                 IF state.candidates = Absent \/ state.customers = Absent
                 THEN [q EXCEPT !.pc = "done", !.resp = Failed("ValueError")]
                 ELSE [q EXCEPT !.cands = state.candidates, !.pc = "f_read"]]
            /\ UNCHANGED <<state, fut>>
       [] q.pc = "f_read" ->
            \* line 107: STATE["customers"] is read
            /\ req' = [req EXCEPT ![r].custs = state.customers, ![r].pc = "f_body"]
            /\ UNCHANGED <<state, fut>>
       [] q.pc = "f_body" ->
            \* lines 111-222 of solve_darkstores, back in line 197
            /\ LET o == solve_outcome(r, q.cands, q.custs, CityAsMaxTime)
               IN req' = [req EXCEPT ![r] =
                    [q EXCEPT !.plan = o, !.pc = after_solve(o),
                              !.resp = IF o.kind = "plan" THEN "" ELSE Failed(o.exc)]]
            /\ UNCHANGED <<state, fut>>
       [] q.pc = "cache" ->
            \* lines 202-218
            /\ state' = cache_plan(state, q.plan)
            /\ req' = [req EXCEPT ![r].pc = "done", ![r].resp = "200:" \o q.source]
            /\ UNCHANGED fut
  /\ UNCHANGED solveVars

\* POST /plan/darkstores
plan_darkstores(r) ==
  /\ req[r].kind = "darkstores"
  /\ req[r].pc # "done"
  /\ LET q == req[r] IN
     CASE q.pc = "start" ->
            \* lines 229-234
            /\ \E ex \in ExtractOutcomes :
                 req' = [req EXCEPT ![r] =
                   IF ex = "raise"
                   THEN [q EXCEPT !.pc = "done", !.resp = Failed("HTTPException")]
                   ELSE [q EXCEPT !.pc = "update", !.cands = Osm(1),
                                  !.custs = Osm(1)]]
            /\ UNCHANGED <<state, fut>>
       [] q.pc = "update" ->
            \* lines 236-239
            /\ state' = [state EXCEPT !.candidates = q.cands, !.customers = q.custs]
            /\ req' = [req EXCEPT ![r].pc = "submit"]
            /\ UNCHANGED fut
       [] q.pc = "submit" ->
            \* lines 242-245
            /\ fut' = [fut EXCEPT ![r].st = "queued"]
            /\ req' = [req EXCEPT ![r].pc = "wait"]
            /\ UNCHANGED state
       [] q.pc = "wait" ->
            \* line 246: the result or the exception of the worker, or, while
            \* the worker has not finished, the TimeoutError of the 120 s wait
            /\ req' = [req EXCEPT ![r] =
                 IF fut[r].st = "done"
                 THEN [q EXCEPT !.plan = fut[r].outcome,
                                !.pc = after_solve(fut[r].outcome),
                                !.resp = IF fut[r].outcome.kind = "plan" THEN ""
                                         ELSE Failed(fut[r].outcome.exc)]
                 ELSE [q EXCEPT !.pc = "done", !.resp = Failed("TimeoutError")]]
            /\ UNCHANGED <<state, fut>>
       [] q.pc = "cache" ->
            \* lines 248-266
            /\ state' = cache_plan(state, q.plan)
            /\ req' = [req EXCEPT ![r].pc = "done", ![r].resp = "200:osm"]
            /\ UNCHANGED fut
  /\ UNCHANGED solveVars

\* a thread of the executor takes the queued call, or ends it; the call has
\* its frames as arguments and does not read STATE
worker(r) ==
  /\ IF fut[r].st = "queued"
     THEN /\ Cardinality({ w \in 1..MaxReq : fut[w].st = "running" }) < max_workers
          /\ fut' = [fut EXCEPT ![r].st = "running"]
     ELSE /\ fut[r].st = "running"
          /\ fut' = [fut EXCEPT ![r] =
               [st |-> "done",
                outcome |-> solve_outcome(r, req[r].cands, req[r].custs,
                                          CityAsMaxTime)]]
  /\ UNCHANGED <<state, req>>
  /\ UNCHANGED solveVars

\* a key-presence test that looks at the data instead of the plan
has_plan_of_data(st) == st.candidates # Absent

\* ""plan_df" in state" of get_state
has_plan(st) == st.plan_df # NoCache

\* "not plan_data" of plan_insights: the key is missing, or its list is empty
no_plan_data(st) == st.plan_df = NoCache \/ st.plan_df.of.n = 0

\* GET /plan/insights
plan_insights(r) ==
  /\ req[r].kind = "insights"
  /\ req[r].pc # "done"
  /\ LET q == req[r] IN
     CASE q.pc = "start" ->
            \* lines 272-276: STATE.get("plan_df"), 404 without a plan
            req' = [req EXCEPT ![r] =
              IF no_plan_data(state)
              THEN [q EXCEPT !.pc = "done", !.resp = "404"]
              ELSE [q EXCEPT !.pc = "coverage", !.plan.cands = state.plan_df.of]]
       [] q.pc = "coverage" ->
            \* lines 277-282: compute_coverage_stats reads
            \* STATE.get("assignments") (line 93)
            req' = [req EXCEPT ![r] =
              [q EXCEPT !.pc = "done", !.plan.custs = state.assignments.of,
                        !.resp = "200:insights"]]
  /\ UNCHANGED <<state, fut>>
  /\ UNCHANGED solveVars

\* GET /state
get_state(r) ==
  /\ req[r].kind = "state"
  /\ req[r].pc = "start"
  /\ req' = [req EXCEPT ![r].pc = "done",
                        ![r].resp = IF has_plan(state) THEN "200:has_plan"
                                    ELSE "200:no_plan"]
  /\ UNCHANGED <<state, fut>>
  /\ UNCHANGED solveVars

ApiInit ==
  /\ ApiStart
  /\ c = << >>
  /\ u = << >>
  /\ max_time_min = CityAsMaxTime
  /\ store_capacity = 0
  /\ use_postgis = FALSE
  /\ pc = "start"
  /\ travel = NoMatrix
  /\ built = 0
  /\ strategy = "none"
  /\ status = "none"
  /\ yval = NoVals
  /\ xval = NoVals
  /\ result = NoResult

ApiNext ==
  \E r \in 1..MaxReq :
     \/ Arrive(r)
     \/ generate(r)
     \/ plan_network(r)
     \/ plan_darkstores(r)
     \/ worker(r)
     \/ plan_insights(r)
     \/ get_state(r)

ApiSpec == ApiInit /\ [][ApiNext]_vars

\* ------------------------------------------------------------------------
\* Properties of the handlers
\* ------------------------------------------------------------------------
CacheOf(st) == <<st.plan_df, st.assignments>>

\* C8: the cached plan (plan_df and assignments of STATE) changes only when a
\* handler holds the plan of a solve that completed, and then both keys are
\* replaced by that plan; a solve that fails or times out leaves it as it was.
CachedPlanProtection ==
  [][ CacheOf(state') # CacheOf(state) =>
        \E r \in 1..MaxReq :
           /\ req[r].plan.kind = "plan"
           /\ state'.plan_df = [solve |-> r, of |-> req[r].plan.cands]
           /\ state'.assignments = [solve |-> r, of |-> req[r].plan.custs] ]_vars

\* C8 witness: a request whose solve failed and one whose wait timed out have
\* both ended, and the cache is what it was before them.
FailedSolvesLeftCache ==
  /\ \E r \in 1..MaxReq :
       req[r].pc = "done" /\ req[r].plan.kind = "raise"
         /\ req[r].resp = Failed("TypeError")
  /\ \E r \in 1..MaxReq :
       req[r].pc = "done" /\ req[r].resp = Failed("TimeoutError")
  /\ CacheOf(state) = <<NoCache, NoCache>>

\* the frames a request prepared for its own solve: /plan/network generates
\* them from n_candidates and n_customers, /plan/darkstores extracts them
OwnCandidates(r) ==
  IF req[r].kind = "network" THEN Synthetic(req[r].n_candidates) ELSE Osm(1)

OwnCustomers(r) ==
  IF req[r].kind = "network" THEN Synthetic(req[r].n_customers) ELSE Osm(1)

\* the body of solve_darkstores runs for request r, with its two frames bound
Solving(r) ==
  \/ req[r].kind = "network" /\ req[r].pc = "f_body"
  \/ req[r].kind = "darkstores" /\ fut[r].st = "running"

\* C12: under any interleaving of requests, the frames a solve works on are
\* the candidate and customer data its own request prepared; what another
\* request wrote to STATE in between does not change them.
SolveIsolation ==
  \A r \in 1..MaxReq :
     Solving(r) =>
       /\ req[r].cands = OwnCandidates(r)
       /\ req[r].custs = OwnCustomers(r)

\* a handler holds the plan of a solve that completed
SolveSucceeded == \E w \in 1..MaxReq : req[w].plan.kind = "plan"

\* C13: in every state of STATE, plan_df and assignments are both absent, or
\* both present and written from the plan of one solve that completed; /state
\* reports has_plan = true, and /plan/insights answers without 404, only when
\* a solve has completed.
CachedPlanCoherence ==
  /\ \/ state.plan_df = NoCache /\ state.assignments = NoCache
     \/ /\ state.plan_df # NoCache
        /\ state.assignments # NoCache
        /\ state.plan_df.solve = state.assignments.solve
        /\ \E w \in 1..MaxReq :
              req[w].plan.kind = "plan" /\ state.plan_df.solve = w
  /\ \A r \in 1..MaxReq :
        (\/ req[r].resp = "200:has_plan"
         \/ req[r].resp = "200:insights"
         \/ (req[r].kind = "insights" /\ req[r].pc = "coverage"))
          => SolveSucceeded

\* C13 witness: a solve has failed, /state or /plan/insights has answered,
\* with has_plan = false or with 404, and both keys of the cache are absent.
NoPlanReportedAfterFailure ==
  /\ \E w \in 1..MaxReq :
        req[w].pc = "done" /\ req[w].plan.kind = "raise"
  /\ \E r \in 1..MaxReq :
        req[r].pc = "done" /\ req[r].resp \in {"200:no_plan", "404"}
  /\ state.candidates # Absent
  /\ CacheOf(state) = <<NoCache, NoCache>>

\* ------------------------------------------------------------------------
\* the preconditions of the model builder (coordinates are always numeric and
\* finite here)
InvalidInput ==
  \/ Len(c) = 0
  \/ Len(u) = 0
  \/ \E j \in Custs(u) : u[j].demand <= 0
  \/ \E i \in Sites(c) : c[i].fixed_cost < 0
  \/ IsInt(max_time_min) /\ max_time_min.v <= 0
  \/ store_capacity <= 0

\* the call returned a plan, on an input that meets every precondition
Returned == pc = "returned" /\ ~InvalidInput

\* the mask and the feasible set of the program the call handed to the solver
Mask == Coverable(travel, max_time_min.v)
HasSolution == FeasibleSet(c, u, Mask, store_capacity) # {}

EntriesOf(j) ==
  { k \in 1..Len(result.assignments) : result.assignments[k].customer_id = u[j].id }

EntriesAt(i) ==
  { k \in 1..Len(result.assignments) : result.assignments[k].store_id = c[i].id }

\* the row of the customer an assignment entry is about
RowOf(k) == CHOOSE j \in Custs(u) : u[j].id = result.assignments[k].customer_id

\* C1: every plan solve_darkstores returns (here: on a valid input), whatever
\* the solver's status, has exactly one assignment entry per customer, so that
\* the number of entries is stats.total_customers.
AssignmentCompleteness ==
  Returned =>
    /\ \A j \in Custs(u) : Cardinality(EntriesOf(j)) = 1
    /\ Len(result.assignments) = result.stats.total_customers

\* C2: in every returned plan, the demands of the customers assigned to a
\* site reported open sum to at most store_capacity.
CapacityRespected ==
  Returned =>
    \A i \in Sites(c) :
       result.stores[i].open =>
         SumOver([k \in EntriesAt(i) |-> u[RowOf(k)].demand], EntriesAt(i))
           <= store_capacity

\* C3: in every returned plan, every assignment entry has
\* travel_min <= max_time_min (equality allowed).
CoverageRespected ==
  Returned =>
    \A k \in 1..Len(result.assignments) :
       result.assignments[k].travel_min <= max_time_min.v * 100

\* C4: in every returned plan, no assignment entry names a site whose entry
\* in plan.stores has open = false.
ClosedSiteIsolation ==
  Returned =>
    \A k \in 1..Len(result.assignments) :
       \A i \in Sites(c) :
          result.stores[i].id = result.assignments[k].store_id
            => result.stores[i].open

\* C5: when no assignment satisfies exactly-one, coverage and capacity
\* together, solve_darkstores never returns a plan: it ends with a
\* SolveInfeasibleError.
InfeasibilityDetected ==
  (pc \in {"returned", "raised"} /\ strategy # "none" /\ IsInt(max_time_min)
     /\ ~InvalidInput /\ ~HasSolution)
    => result.kind = "raise" /\ result.exc = "SolveInfeasibleError"

\* C7: on an input that violates a precondition, solve_darkstores fails before
\* any travel matrix is built or any solver is started.  (The ValueError of
\* the code is taken for the InvalidInputError of the claim.)
InputPreconditions ==
  InvalidInput =>
    /\ travel = NoMatrix
    /\ status = "none"

\* C9: when the solver's time limit ends the search, the caller does not get
\* a plan: the outcome is a SolveTimeoutError.
TimeoutIsDistinct ==
  (status \in {"TimeLimit", "NotSolved"} /\ ~InvalidInput) =>
    /\ result.kind = "raise"
    /\ result.exc = "SolveTimeoutError"

\* the sites whose assignment variable for customer j the solver left
\* realized (value > 0.5)
RealizedFor(j) == { i \in Sites(c) : Realized(xval[<<i, j>>]) }

\* C11: the extractor verifies that every customer has exactly one realized
\* assignment: a plan is returned only when that holds, and a customer with
\* none or with several realized assignments ends the call with a failure.
DefensiveExtraction ==
  Returned => \A j \in Custs(u) : Cardinality(RealizedFor(j)) = 1

\* ------------------------------------------------------------------------
\* Properties of _build_travel_matrix
\* ------------------------------------------------------------------------
PostgisValues == { PostgisMinutes(res, travel_speed_kmph) : res \in DbResults }

\* C6: when the PostGIS strategy fails, before the first pair or after any
\* number of pairs, nothing is raised and the returned matrix is, entry for
\* entry, the matrix of the geodesic strategy; a returned matrix is either
\* that one or made of PostGIS results only.
WholeMatrixFallback ==
  /\ strategy = "fallback" =>
       /\ pc = "matrix"
       /\ result.kind = "none"
       /\ travel = HaversineMatrix(c, u, travel_speed_kmph)
  /\ pc = "matrix" =>
       /\ DOMAIN travel = Pairs(c, u)
       /\ \/ travel = HaversineMatrix(c, u, travel_speed_kmph)
          \/ strategy = "postgis" /\ \A p \in Pairs(c, u) : travel[p] \in PostgisValues

\* C6 witness: the PostGIS loop failed after it had computed some but not all
\* pairs, and the matrix was returned.
FallbackAfterSomePairs ==
  /\ strategy = "fallback"
  /\ pc = "matrix"
  /\ built > 0
  /\ built < Len(c) * Len(u)
  /\ \E p \in Pairs(c, u) : travel[p] \notin PostgisValues
====
